---- MODULE Spec2Model ----
(***************************************************************************)
(* Model of src/tc_complete_currency.py: the CurrencyTools functions       *)
(* (list_supported, resolve_currency, convert) and the bounded tool        *)
(* dispatch loop ToolExecutor.run.                                         *)
(*                                                                         *)
(* Python values are tagged records:                                       *)
(*   None  -> [t |-> "None"]                                               *)
(*   str   -> [t |-> "str",   s |-> <<characters>>]                        *)
(*   number-> [t |-> "float", v |-> integer], fixed point: an amount is    *)
(*            counted in tenths, a rate and a converted value in           *)
(*            ten-thousandths (an int is not told apart from a float)      *)
(*   list  -> [t |-> "list",  items |-> <<values>>]                        *)
(*   dict  -> [t |-> "dict",  d |-> record]                                *)
(* A call's outcome is [raised |-> BOOLEAN, val |-> value or exception].   *)
(***************************************************************************)
EXTENDS Integers, Sequences, FiniteSets, TLC

VARIABLES
    \* ---- one ToolExecutor.run call ----
    max_turns,   \* the max_turns argument
    turn,        \* the loop variable of `for turn in range(1, max_turns + 1)`
    messages,    \* the conversation list
    pc,          \* "loop" | "final" (break) | "halted" (range exhausted) | "raised"
    requests,    \* one entry per completion() call: the number of turns sent
    stdout,      \* the lines printed
    last,        \* what the latest iteration did
    invoked,     \* one entry per self.tools[name](...) call made
    \* ---- one direct call of a CurrencyTools method ----
    callee,      \* the method called
    input,       \* its arguments
    origin,      \* how each currency argument was written: word, case, padding
    outcome,     \* its outcome once it has returned, NotCalled before
    lookups      \* the RATE_TABLE keys the call looked up

loopVars == <<max_turns, turn, messages, pc, requests, stdout, last, invoked>>

toolVars == <<callee, input, origin, outcome, lookups>>

vars == <<max_turns, turn, messages, pc, requests, stdout, last, invoked,
          callee, input, origin, outcome, lookups>>

----------------------------------------------------------------------------
(* Bounds *)

\* largest max_turns argument explored
MaxTurns == 3

\* longest run of whitespace put on either side of a currency name
MaxPad == 1

----------------------------------------------------------------------------
(* Python values *)

PyNone == [t |-> "None"]

PyStr(s) == [t |-> "str", s |-> s]

PyFloat(v) == [t |-> "float", v |-> v]

PyList(items) == [t |-> "list", items |-> items]

PyDict(d) == [t |-> "dict", d |-> d]

\* a str whose characters the model never inspects (a tool name, a JSON
\* document, the assistant's text), kept whole
Text(x) == [t |-> "text", x |-> x]

EmptyDict == PyDict([k \in {} |-> PyNone])

Return(v) == [raised |-> FALSE, val |-> v]

Raise(e) == [raised |-> TRUE, val |-> e]

\* Python truthiness of a value: None, "", 0, [] and {} are falsy
Truthy(v) ==
    CASE v.t = "None"  -> FALSE
      [] v.t = "str"   -> v.s # <<>>
      [] v.t = "float" -> v.v # 0
      [] v.t = "list"  -> v.items # <<>>
      [] v.t = "dict"  -> DOMAIN v.d # {}
      [] v.t = "text"  -> v.x # ""
      [] OTHER         -> TRUE

----------------------------------------------------------------------------
(* str methods: strip, upper, lower *)

UpperLetters ==
    <<"A","B","C","D","E","F","G","H","I","J","K","L","M",
      "N","O","P","Q","R","S","T","U","V","W","X","Y","Z">>

LowerLetters ==
    <<"a","b","c","d","e","f","g","h","i","j","k","l","m",
      "n","o","p","q","r","s","t","u","v","w","x","y","z">>

Whitespace == {" ", "\t", "\n"}

UpperChar(c) ==
    IF \E i \in 1..26 : LowerLetters[i] = c
    THEN UpperLetters[CHOOSE i \in 1..26 : LowerLetters[i] = c]
    ELSE c

LowerChar(c) ==
    IF \E i \in 1..26 : UpperLetters[i] = c
    THEN LowerLetters[CHOOSE i \in 1..26 : UpperLetters[i] = c]
    ELSE c

upper(s) == [i \in 1..Len(s) |-> UpperChar(s[i])]

lower(s) == [i \in 1..Len(s) |-> LowerChar(s[i])]

RECURSIVE lstrip(_)
lstrip(s) ==
    IF s # <<>> /\ Head(s) \in Whitespace THEN lstrip(Tail(s)) ELSE s

RECURSIVE rstrip(_)
rstrip(s) ==
    IF s # <<>> /\ s[Len(s)] \in Whitespace
    THEN rstrip(SubSeq(s, 1, Len(s) - 1))
    ELSE s

strip(s) == rstrip(lstrip(s))

----------------------------------------------------------------------------
(* Mock data *)

USD == <<"U","S","D">>

THB == <<"T","H","B">>

EUR == <<"E","U","R">>

JPY == <<"J","P","Y">>

UNKNOWN == <<"U","N","K","N","O","W","N">>

Arrow == <<"-", ">">>

\* rates in ten-thousandths: 35.0, 0.0286, 0.025, 40.0, 0.92, 1.087
RATE_TABLE ==
    [k \in {<<"U","S","D","-",">","T","H","B">>, <<"T","H","B","-",">","U","S","D">>,
            <<"T","H","B","-",">","E","U","R">>, <<"E","U","R","-",">","T","H","B">>,
            <<"U","S","D","-",">","E","U","R">>, <<"E","U","R","-",">","U","S","D">>} |->
        CASE k = <<"U","S","D","-",">","T","H","B">> -> 350000
          [] k = <<"T","H","B","-",">","U","S","D">> -> 286
          [] k = <<"T","H","B","-",">","E","U","R">> -> 250
          [] k = <<"E","U","R","-",">","T","H","B">> -> 400000
          [] k = <<"U","S","D","-",">","E","U","R">> -> 9200
          [] k = <<"E","U","R","-",">","U","S","D">> -> 10870]

SUPPORTED == <<USD, THB, EUR, JPY>>

NAME_TO_ISO ==
    [k \in {<<"b","a","h","t">>, <<"d","o","l","l","a","r">>,
            <<"e","u","r","o">>, <<"y","e","n">>} |->
        CASE k = <<"b","a","h","t">>         -> THB
          [] k = <<"d","o","l","l","a","r">> -> USD
          [] k = <<"e","u","r","o">>         -> EUR
          [] k = <<"y","e","n">>             -> JPY]

Range(f) == {f[i] : i \in DOMAIN f}

----------------------------------------------------------------------------
(* CurrencyTools *)

list_supported == Return(PyList([i \in 1..Len(SUPPORTED) |-> PyStr(SUPPORTED[i])]))

\* (name_or_code or ""): a falsy argument of any type becomes ""
OrEmpty(x) == IF Truthy(x) THEN x ELSE PyStr(<<>>)

AttributeError(x, attr) == [type |-> "AttributeError", of |-> x.t, attr |-> attr]

\* variant: the alias is looked up without lower()
resolve_currency_NoLower(name_or_code) ==
    LET arg == OrEmpty(name_or_code) IN
    IF arg.t # "str"
    THEN Raise(AttributeError(arg, "strip"))
    ELSE LET code == upper(strip(arg.s)) IN
         IF code \in Range(SUPPORTED)
         THEN Return(PyStr(code))
         ELSE LET key == strip(arg.s) IN
              IF key \in DOMAIN NAME_TO_ISO
              THEN Return(PyStr(NAME_TO_ISO[key]))
              ELSE Return(PyStr(UNKNOWN))

resolve_currency(name_or_code) ==
    LET arg == OrEmpty(name_or_code) IN
    IF arg.t # "str"
    THEN Raise(AttributeError(arg, "strip"))
    ELSE LET code == upper(strip(arg.s)) IN
         IF code \in Range(SUPPORTED)
         THEN Return(PyStr(code))
         ELSE LET key == lower(strip(arg.s)) IN
              IF key \in DOMAIN NAME_TO_ISO
              THEN Return(PyStr(NAME_TO_ISO[key]))
              ELSE Return(PyStr(UNKNOWN))

----------------------------------------------------------------------------
(* float(amount), round(x, 4), sorted(keys) *)

Digits == <<"0","1","2","3","4","5","6","7","8","9">>

IsDigits(s) == s # <<>> /\ \A i \in 1..Len(s) : s[i] \in Range(Digits)

DigitVal(c) == (CHOOSE i \in 1..10 : Digits[i] = c) - 1

RECURSIVE IntVal(_)
IntVal(s) ==
    IF s = <<>> THEN 0
    ELSE 10 * IntVal(SubSeq(s, 1, Len(s) - 1)) + DigitVal(s[Len(s)])

\* float() of a str, in tenths.  Modelled for the literals  [-]digits[.digit];
\* every other string of the model's inputs is one float() rejects.
FloatOfStr(s) ==
    LET b    == strip(s)
        neg  == b # <<>> /\ Head(b) = "-"
        u    == IF neg THEN Tail(b) ELSE b
        sign == IF neg THEN -1 ELSE 1
        n    == Len(u)
    IN  IF IsDigits(u)
        THEN Return(PyFloat(sign * 10 * IntVal(u)))
        ELSE IF n >= 3 /\ u[n - 1] = "." /\ IsDigits(SubSeq(u, 1, n - 2))
                /\ IsDigits(<<u[n]>>)
        THEN Return(PyFloat(sign * (10 * IntVal(SubSeq(u, 1, n - 2)) + DigitVal(u[n]))))
        ELSE Raise([type |-> "ValueError", of |-> "str", attr |-> "float"])

\* float(amount)
FloatOf(amount) ==
    CASE amount.t = "float" -> Return(amount)
      [] amount.t = "str"   -> FloatOfStr(amount.s)
      [] OTHER              -> Raise([type |-> "TypeError", of |-> amount.t, attr |-> "float"])

\* p \div d rounded to the nearest integer, ties to the even one
RoundHalfEven(p, d) ==
    LET q == p \div d
        r == p % d
    IN  IF 2 * r < d THEN q
        ELSE IF 2 * r > d THEN q + 1
        ELSE IF q % 2 = 0 THEN q ELSE q + 1

\* variant: the product is truncated, not rounded
Round4_Truncate(product) == product \div 10

\* round(amt * rate, 4): amt in tenths times rate in ten-thousandths is a
\* product in hundred-thousandths, rounded to ten-thousandths
Round4(product) == RoundHalfEven(product, 10)

CodePoint(c) ==
    CASE c = "-" -> 45
      [] c = ">" -> 62
      [] OTHER   -> 64 + (CHOOSE i \in 1..26 : UpperLetters[i] = c)

RECURSIVE StrLess(_, _)
StrLess(a, b) ==
    IF a = <<>> THEN b # <<>>
    ELSE IF b = <<>> THEN FALSE
    ELSE IF Head(a) # Head(b) THEN CodePoint(Head(a)) < CodePoint(Head(b))
    ELSE StrLess(Tail(a), Tail(b))

RECURSIVE sorted(_)
sorted(S) ==
    IF S = {} THEN <<>>
    ELSE LET m == CHOOSE x \in S : \A y \in S : x = y \/ StrLess(x, y)
         IN  <<m>> \o sorted(S \ {m})

SortedPairs == sorted(DOMAIN RATE_TABLE)

----------------------------------------------------------------------------
(* CurrencyTools.convert *)

\* variant: the key is built in the reverse direction
PairKey_Reversed(b, q) == q \o Arrow \o b

\* f"{base_resolved}->{quote_resolved}"
PairKey(b, q) == b \o Arrow \o q

\* variant: `and` in place of `or`
EitherUnknown_And(base_resolved, quote_resolved) ==
    base_resolved = UNKNOWN /\ quote_resolved = UNKNOWN

\* the test of line 63
EitherUnknown(base_resolved, quote_resolved) ==
    base_resolved = UNKNOWN \/ quote_resolved = UNKNOWN

\* variant: a missing pair gets the default rate 1.0
RateGet_DefaultOne(pair) ==
    IF pair \in DOMAIN RATE_TABLE THEN PyFloat(RATE_TABLE[pair]) ELSE PyFloat(10000)

\* RATE_TABLE.get(pair): the rate, or None
RateGet(pair) ==
    IF pair \in DOMAIN RATE_TABLE THEN PyFloat(RATE_TABLE[pair]) ELSE PyNone

StrList(seq) == PyList([i \in 1..Len(seq) |-> PyStr(seq[i])])

\* convert, together with the RATE_TABLE keys it looked up
ConvertTrace(amount, base, quote) ==
    LET parsed == FloatOf(amount) IN
    IF parsed.raised
    THEN [out |-> Return(PyDict([error |-> [fmt |-> "Invalid amount: {amount}",
                                            amount |-> amount]])),
          lookups |-> <<>>]
    ELSE
    LET amt == parsed.val
        rb  == resolve_currency(base)
    IN
    IF rb.raised THEN [out |-> rb, lookups |-> <<>>]
    ELSE
    LET rq == resolve_currency(quote) IN
    IF rq.raised THEN [out |-> rq, lookups |-> <<>>]
    ELSE
    LET base_resolved  == rb.val.s
        quote_resolved == rq.val.s
    IN
    IF EitherUnknown(base_resolved, quote_resolved)
    THEN [out |-> Return(PyDict(
                    [error |-> [fmt |-> "UNKNOWN_CURRENCY"],
                     hint  |-> PyDict([supported |-> StrList(SUPPORTED),
                                       base |-> base, quote |-> quote])])),
          lookups |-> <<>>]
    ELSE
    LET pair == PairKey(base_resolved, quote_resolved)
        rate == RateGet(pair)
    IN
    IF rate = PyNone
    THEN [out |-> Return(PyDict(
                    [error |-> [fmt |-> "No rate for {pair}", pair |-> pair],
                     supported_pairs |-> StrList(SortedPairs)])),
          lookups |-> <<pair>>]
    ELSE [out |-> Return(PyDict(
                    [amount    |-> amt,
                     base      |-> PyStr(base_resolved),
                     quote     |-> PyStr(quote_resolved),
                     rate      |-> rate,
                     converted |-> PyFloat(Round4(amt.v * rate.v))])),
          lookups |-> <<pair>>]

convert(amount, base, quote) == ConvertTrace(amount, base, quote).out

----------------------------------------------------------------------------
(* ToolExecutor: registry and tool execution *)

\* self.tools after register_tools(CurrencyTools()): every schema of
\* get_schemas names a method of the class, so all three are registered
tools == {"list_supported", "resolve_currency", "convert"}

\* the parameters of each registered callable (none has a default)
Params(name) ==
    CASE name = "list_supported"   -> {}
      [] name = "resolve_currency" -> {"name_or_code"}
      [] name = "convert"          -> {"amount", "base", "quote"}

\* the body of a registered callable, run on arguments already bound
Body(name, kw) ==
    CASE name = "list_supported"   -> list_supported
      [] name = "resolve_currency" -> resolve_currency(kw.name_or_code)
      [] name = "convert"          -> convert(kw.amount, kw.base, kw.quote)

\* the argument strings the provider sends, besides None and ""
JsonDocs ==
    {"{bad",
     "{\"name_or_code\": \" Baht \"}",
     "{\"name_or_code\": 5}",
     "{\"amount\": 100, \"base\": \"usd\", \"quote\": \"baht\"}"}

\* json.loads on those documents and on the default "{}"
json_loads(doc) ==
    CASE doc = "{}"   -> Return(EmptyDict)
      [] doc = "{\"name_or_code\": \" Baht \"}" ->
            Return(PyDict([name_or_code |-> PyStr(<<" ","B","a","h","t"," ">>)]))
      [] doc = "{\"name_or_code\": 5}" ->
            Return(PyDict([name_or_code |-> PyFloat(50)]))
      [] doc = "{\"amount\": 100, \"base\": \"usd\", \"quote\": \"baht\"}" ->
            Return(PyDict([amount |-> PyFloat(1000),
                           base   |-> PyStr(<<"u","s","d">>),
                           quote  |-> PyStr(<<"b","a","h","t">>)]))
      [] OTHER -> Raise([type |-> "JSONDecodeError", of |-> "str", attr |-> doc])

\* variant: the argument string is parsed as it comes, without `or "{}"`
ArgumentsOrEmpty_NoDefault(fc) ==
    IF fc.arguments = PyNone THEN "None" ELSE fc.arguments.x

\* getattr(fc, "arguments", "{}") or "{}"
ArgumentsOrEmpty(fc) ==
    IF Truthy(fc.arguments) THEN fc.arguments.x ELSE "{}"

\* self.tools[name](**args) and self.tools[name]()
CallTool(name, args) ==
    IF name.t # "text" \/ name.x \notin tools
    THEN [called |-> FALSE, entered |-> FALSE,
          out |-> Raise([type |-> "KeyError", of |-> name.t, attr |-> name])]
    ELSE IF Truthy(args) /\ args.t # "dict"
    THEN [called |-> TRUE, entered |-> FALSE,
          out |-> Raise([type |-> "TypeError", of |-> args.t, attr |-> "**"])]
    ELSE LET kw == IF Truthy(args) THEN args.d ELSE EmptyDict.d IN
         IF DOMAIN kw # Params(name.x)
         THEN [called |-> TRUE, entered |-> FALSE,
               out |-> Raise([type |-> "TypeError", of |-> name.x, attr |-> "arguments"])]
         ELSE [called |-> TRUE, entered |-> TRUE, out |-> Body(name.x, kw)]

\* the body of the try statement, lines 159-164
ExecuteTool(fc) ==
    LET loaded == json_loads(ArgumentsOrEmpty(fc)) IN
    IF loaded.raised
    THEN [called |-> FALSE, entered |-> FALSE, args |-> PyNone, out |-> loaded]
    ELSE LET c == CallTool(fc.name, loaded.val) IN
         [called |-> c.called, entered |-> c.entered, args |-> loaded.val, out |-> c.out]

\* variant: an except clause that names only some exception classes
Caught_Narrow(e) == e.type \in {"KeyError", "TypeError", "ValueError", "JSONDecodeError"}

\* `except Exception`: every exception class raised here derives from Exception
Caught(e) ==
    e.type \in {"KeyError", "TypeError", "AttributeError", "ValueError", "JSONDecodeError"}

\* str(e)
ExcStr(e) == [fmt |-> "{e}", e |-> e]

\* json.dumps(result, ensure_ascii=False)
json_dumps(v) == [json |-> v]

UserText == Text("Convert 100 USD to THB")

UserTurn == [role |-> "user", content |-> UserText]

\* variant: the assistant turn records the defaulted argument string
AssistantTurn_Defaulted(fc) ==
    [role |-> "assistant", content |-> PyNone,
     function_call |-> [name |-> fc.name,
                        arguments |-> Text(ArgumentsOrEmpty(fc))]]

AssistantTurn(fc) ==
    [role |-> "assistant", content |-> PyNone,
     function_call |-> [name |-> fc.name, arguments |-> fc.arguments]]

FunctionTurn(fc, result) ==
    [role |-> "function", name |-> fc.name, content |-> json_dumps(result)]

----------------------------------------------------------------------------
(* The completion provider: what one completion() call can answer *)

Names == {Text(n) : n \in tools \cup {"no_such_tool"}}

ArgStrings == {PyNone, Text("")} \cup {Text(d) : d \in JsonDocs}

FunctionCalls == [name : Names, arguments : ArgStrings]

\* resp.choices[0].message
FinalMessages ==
    [content : {Text("3500 THB"), PyNone}, function_call : {PyNone}]

CallMessages ==
    [content : {PyNone}, function_call : FunctionCalls]

----------------------------------------------------------------------------
(* ToolExecutor.run *)

NoIteration == [kind |-> "none"]

\* variant: the range runs one value too far
MoreTurns_OffByOne(done, mt) == done <= mt

\* variant: a loop without the cap
MoreTurns_Unbounded(done, mt) == TRUE

\* range(1, max_turns + 1) has a next value after `done` iterations
MoreTurns(done, mt) == done < mt

\* run is entered: messages = [user turn], then the for statement is reached
Run ==
    /\ pc = "idle"
    /\ messages' = <<UserTurn>>
    /\ turn' = 0
    /\ pc' = IF MoreTurns(turn', max_turns) THEN "loop" ELSE "halted"
    /\ UNCHANGED <<max_turns, requests, stdout, last, invoked>>
    /\ UNCHANGED toolVars

\* completion() itself raises: nothing in run catches it
CompletionRaises ==
    /\ pc = "loop"
    /\ turn' = turn + 1
    /\ requests' = Append(requests, Len(messages))
    /\ pc' = "raised"
    /\ last' = [kind |-> "completion_error", turn |-> turn']
    /\ UNCHANGED <<max_turns, messages, stdout, invoked>>
    /\ UNCHANGED toolVars

\* variant: FINAL is printed but the break is missing
ReceiveFinal_NoBreak(msg) ==
    /\ pc = "loop"
    /\ ~ Truthy(msg.function_call)
    /\ turn' = turn + 1
    /\ requests' = Append(requests, Len(messages))
    /\ stdout' = Append(stdout,
            [line |-> "FINAL:",
             val  |-> IF Truthy(msg.content) THEN msg.content ELSE msg.content])
    /\ pc' = IF MoreTurns(turn', max_turns) THEN "loop" ELSE "halted"
    /\ last' = [kind |-> "final", turn |-> turn', msg |-> msg]
    /\ UNCHANGED <<max_turns, messages, invoked>>
    /\ UNCHANGED toolVars

\* an iteration whose response carries no function call: print FINAL, break
ReceiveFinal(msg) ==
    /\ pc = "loop"
    /\ ~ Truthy(msg.function_call)
    /\ turn' = turn + 1
    /\ requests' = Append(requests, Len(messages))
    /\ stdout' = Append(stdout,
            [line |-> "FINAL:",
             val  |-> IF Truthy(msg.content) THEN msg.content ELSE msg.content])
    /\ pc' = "final"
    /\ last' = [kind |-> "final", turn |-> turn', msg |-> msg]
    /\ UNCHANGED <<max_turns, messages, invoked>>
    /\ UNCHANGED toolVars

\* an iteration whose response carries a function call: print the trace,
\* execute the tool inside try/except, append the two turns, loop
ReceiveFunctionCall(msg) ==
    /\ pc = "loop"
    /\ msg.function_call # PyNone
    /\ LET fc     == msg.function_call
           exec   == ExecuteTool(fc)
           caught == exec.out.raised /\ Caught(exec.out.val)
           thrown == exec.out.raised /\ ~ Caught(exec.out.val)
           result == IF caught THEN PyDict([error |-> ExcStr(exec.out.val)])
                     ELSE exec.out.val
       IN  /\ turn' = turn + 1
           /\ requests' = Append(requests, Len(messages))
           /\ stdout' = stdout \o
                 << [line |-> "=== INTERMEDIATE", turn |-> turn'],
                    [line |-> "name:", val |-> fc.name],
                    [line |-> "arguments:", val |-> fc.arguments] >>
           /\ invoked' = IF exec.called
                         THEN Append(invoked, [turn |-> turn', name |-> fc.name,
                                               args |-> exec.args])
                         ELSE invoked
           /\ IF thrown
              THEN /\ messages' = messages
                   /\ pc' = "raised"
                   /\ last' = [kind |-> "tool_error", turn |-> turn', msg |-> msg,
                               exec |-> exec]
              ELSE /\ messages' = messages \o
                          <<AssistantTurn(fc), FunctionTurn(fc, result)>>
                   /\ pc' = IF MoreTurns(turn', max_turns) THEN "loop" ELSE "halted"
                   /\ last' = [kind |-> "call", turn |-> turn', msg |-> msg,
                               exec |-> exec, result |-> result]
    /\ UNCHANGED max_turns
    /\ UNCHANGED toolVars

NotCalled == [t |-> "pending"]

Init ==
    /\ max_turns \in -1..MaxTurns
    /\ turn = 0
    /\ messages = <<>>
    /\ pc = "idle"
    /\ requests = <<>>
    /\ stdout = <<>>
    /\ last = NoIteration
    /\ invoked = <<>>
    /\ callee = "none"
    /\ input = EmptyDict.d
    /\ origin = EmptyDict.d
    /\ outcome = NotCalled
    /\ lookups = <<>>

Next ==
    \/ Run
    \/ CompletionRaises
    \/ \E msg \in FinalMessages : ReceiveFinal(msg)
    \/ \E msg \in CallMessages : ReceiveFunctionCall(msg)

Spec == Init /\ [][Next]_vars

----------------------------------------------------------------------------
(* Direct calls of the CurrencyTools methods on enumerated arguments *)

\* currency names the arguments are built from, with the code each one
\* stands for ("" for none)
WordTable ==
    << [word |-> USD, iso |-> USD],
       [word |-> THB, iso |-> THB],
       [word |-> EUR, iso |-> EUR],
       [word |-> JPY, iso |-> JPY],
       [word |-> <<"b","a","h","t">>,         iso |-> THB],
       [word |-> <<"d","o","l","l","a","r">>, iso |-> USD],
       [word |-> <<"e","u","r","o">>,         iso |-> EUR],
       [word |-> <<"y","e","n">>,             iso |-> JPY],
       [word |-> <<>>,                        iso |-> <<>>],
       [word |-> <<"A","B","C">>,             iso |-> <<>>],
       [word |-> UNKNOWN,                     iso |-> <<>>],
       [word |-> <<"U","S">>,                 iso |-> <<>>],
       [word |-> <<"U"," ","S","D">>,         iso |-> <<>>],
       [word |-> <<"b","a","h","t","s">>,     iso |-> <<>>] >>

Words == 1..Len(WordTable)

Casings == {"asis", "upper", "lower", "title", "swap"}

SwapChar(c) == IF UpperChar(c) = c THEN LowerChar(c) ELSE UpperChar(c)

ApplyCase(w, casing) ==
    CASE casing = "asis"  -> w
      [] casing = "upper" -> [i \in 1..Len(w) |-> UpperChar(w[i])]
      [] casing = "lower" -> [i \in 1..Len(w) |-> LowerChar(w[i])]
      [] casing = "title" -> [i \in 1..Len(w) |->
                                IF i = 1 THEN UpperChar(w[i]) ELSE LowerChar(w[i])]
      [] casing = "swap"  -> [i \in 1..Len(w) |->
                                IF i % 2 = 1 THEN SwapChar(w[i]) ELSE w[i]]

RECURSIVE SeqsUpTo(_, _)
SeqsUpTo(S, n) ==
    IF n = 0 THEN {<<>>}
    ELSE LET shorter == SeqsUpTo(S, n - 1) IN
         shorter \cup {Append(p, c) : p \in shorter, c \in S}

Pads == SeqsUpTo(Whitespace, MaxPad)

\* a currency argument written as a word in a letter case with whitespace
\* on both sides
NameGens ==
    [kind : {"built"}, word : Words, casing : Casings, left : Pads, right : Pads]

Build(g) == g.left \o ApplyCase(WordTable[g.word].word, g.casing) \o g.right

\* an argument that is not a str: None or a number
OtherArgs == {[kind |-> "None"], [kind |-> "number", v |-> 0], [kind |-> "number", v |-> 50]}

\* the Python value an argument description stands for
ValueOf(g) ==
    CASE g.kind = "built"  -> PyStr(Build(g))
      [] g.kind = "None"   -> PyNone
      [] g.kind = "number" -> PyFloat(g.v)

\* arguments of resolve_currency
ResolveArgs == NameGens \cup OtherArgs

\* base and quote arguments of convert
ConvertArgs ==
    [kind : {"built"}, word : Words, casing : {"asis", "swap"},
     left : {<<>>}, right : {<<>>, <<" ">>}]
    \cup {[kind |-> "None"], [kind |-> "number", v |-> 50]}

AmountInputs ==
    {PyFloat(v) : v \in {-1, 0, 1, 2, 3, 15, 50, 100, 1000, 2500}}
    \cup {PyStr(<<"1","0","0">>), PyStr(<<" ","0",".","1">>),
          PyStr(<<"a","b","c">>), PyStr(<<>>), PyNone}

InitTools ==
    /\ max_turns = 0
    /\ turn = 0
    /\ messages = <<>>
    /\ pc = "idle"
    /\ requests = <<>>
    /\ stdout = <<>>
    /\ last = NoIteration
    /\ invoked = <<>>
    /\ outcome = NotCalled
    /\ lookups = <<>>
    /\ \/ /\ callee = "list_supported"
          /\ origin = EmptyDict.d
          /\ input = EmptyDict.d
       \/ /\ callee = "resolve_currency"
          /\ origin \in [name_or_code : ResolveArgs]
          /\ input = [name_or_code |-> ValueOf(origin.name_or_code)]
       \/ /\ callee = "convert"
          /\ origin \in [base : ConvertArgs, quote : ConvertArgs]
          /\ \E amount \in AmountInputs :
                input = [amount |-> amount, base |-> ValueOf(origin.base),
                         quote |-> ValueOf(origin.quote)]

CallListSupported ==
    /\ callee = "list_supported"
    /\ outcome = NotCalled
    /\ outcome' = list_supported
    /\ UNCHANGED <<callee, input, origin, lookups>>
    /\ UNCHANGED loopVars

CallResolveCurrency ==
    /\ callee = "resolve_currency"
    /\ outcome = NotCalled
    /\ outcome' = resolve_currency(input.name_or_code)
    /\ UNCHANGED <<callee, input, origin, lookups>>
    /\ UNCHANGED loopVars

CallConvert ==
    /\ callee = "convert"
    /\ outcome = NotCalled
    /\ LET r == ConvertTrace(input.amount, input.base, input.quote) IN
       /\ outcome' = r.out
       /\ lookups' = r.lookups
    /\ UNCHANGED <<callee, input, origin>>
    /\ UNCHANGED loopVars

NextTools ==
    \/ CallListSupported
    \/ CallResolveCurrency
    \/ CallConvert

SpecTools == InitTools /\ [][NextTools]_vars

----------------------------------------------------------------------------
(* Properties of ToolExecutor.run, checked under Spec *)

Last(seq) == seq[Len(seq)]

\* the function call of the latest iteration
LastCall == last.msg.function_call

IntermediateLines == {i \in DOMAIN stdout : stdout[i].line = "=== INTERMEDIATE"}

FinalLines == {i \in DOMAIN stdout : stdout[i].line = "FINAL:"}

ErrorResult(e) == PyDict([error |-> ExcStr(e)])

\* C1: one call of run issues at most max_turns requests to the completion
\* provider, and none when max_turns <= 0.
C1_RequestsWithinMaxTurns ==
    Len(requests) <= (IF max_turns > 0 THEN max_turns ELSE 0)

C1_Witness ==
    /\ max_turns >= 2
    /\ Len(requests) = max_turns
    /\ pc = "halted"

\* C2: the iteration whose response carries no function call ends the loop:
\* FINAL is printed with the content of that response, no tool is invoked,
\* no turn is appended, and no request is made afterwards.
C2_FinalTerminates ==
    [][ /\ ( /\ turn' = turn + 1
             /\ last'.kind \in {"final", "call", "tool_error"}
             /\ last'.msg.function_call = PyNone )
           => /\ pc' = "final"
              /\ stdout' = Append(stdout, [line |-> "FINAL:",
                                           val  |-> last'.msg.content])
              /\ messages' = messages
              /\ invoked' = invoked
        /\ pc = "final"
           => /\ pc' = "final"
              /\ requests' = requests
              /\ messages' = messages
              /\ invoked' = invoked ]_vars

C2_Witness ==
    /\ pc = "final"
    /\ last.kind = "final"
    /\ last.turn >= 2
    /\ Last(stdout) = [line |-> "FINAL:", val |-> Text("3500 THB")]
    /\ Len(requests) = last.turn

\* C3: an error raised while handling a function call (the callable raising,
\* arguments that do not match its parameters, an unregistered tool name)
\* never leaves run: the function-result turn carries {error: message} and
\* the loop goes on while the turn cap is not reached.
C3_ToolErrorsBecomeResults ==
    /\ last.kind # "tool_error"
    /\ pc = "raised" => last.kind = "completion_error"
    /\ (last.kind = "call" /\ last.exec.out.raised)
          => /\ Last(messages) = [role    |-> "function",
                                  name    |-> LastCall.name,
                                  content |-> json_dumps(ErrorResult(last.exec.out.val))]
             /\ last.turn < max_turns => pc = "loop"
    /\ ( /\ last.kind \in {"call", "tool_error"}
         /\ \/ LastCall.name = Text("no_such_tool")
            \/ /\ LastCall.name = Text("resolve_currency")
               /\ LastCall.arguments = Text("{\"name_or_code\": 5}")
            \/ /\ LastCall.name = Text("convert")
               /\ LastCall.arguments = Text("{\"name_or_code\": \" Baht \"}") )
          => /\ last.kind = "call"
             /\ last.result.t = "dict"
             /\ DOMAIN last.result.d = {"error"}
             /\ Last(messages).content = json_dumps(last.result)

C3_Witness ==
    /\ last.kind = "call"
    /\ LastCall.name = Text("resolve_currency")
    /\ last.exec.entered
    /\ last.exec.out.raised
    /\ last.result = ErrorResult(last.exec.out.val)
    /\ pc = "loop"

Registered(name) == name.t = "text" /\ name.x \in tools

\* C4 as stated: with an absent or an invalid argument string the arguments
\* are the empty object, the matching registered callable is still invoked
\* with them, and the function-result turn carries what it returned.
C4_AsStated ==
    ( /\ last.kind = "call"
      /\ Registered(LastCall.name)
      /\ LastCall.arguments \in {PyNone, Text(""), Text("{bad")} )
    => /\ last.exec.called
       /\ last.exec.args = EmptyDict
       /\ invoked # <<>>
       /\ Last(invoked) = [turn |-> last.turn, name |-> LastCall.name,
                           args |-> EmptyDict]
       /\ ~ last.exec.out.raised
             => Last(messages).content = json_dumps(last.exec.out.val)

\* C4 amended: with an absent (None) or empty argument string the arguments
\* are the empty object and the matching registered callable is called with
\* no arguments, the function-result turn carrying what it returned, or
\* {error: message} when the call raised; with an argument string that is
\* not valid JSON no callable is invoked and the function-result turn
\* carries {error: message} of the decoding error.
C4_AbsentCallsInvalidDoesNot ==
    ( /\ last.kind \in {"call", "tool_error"}
      /\ Registered(LastCall.name) )
    => /\ last.kind = "call"
       /\ LastCall.arguments \in {PyNone, Text("")}
          => /\ last.exec.called
             /\ last.exec.args = EmptyDict
             /\ invoked # <<>>
             /\ Last(invoked) = [turn |-> last.turn, name |-> LastCall.name,
                                 args |-> EmptyDict]
             /\ Last(messages).content =
                   json_dumps(IF last.exec.out.raised
                              THEN ErrorResult(last.exec.out.val)
                              ELSE last.exec.out.val)
             /\ last.exec.out.raised <=> LastCall.name # Text("list_supported")
       /\ LastCall.arguments = Text("{bad")
          => /\ ~ last.exec.called
             /\ ~ last.exec.entered
             /\ \A i \in DOMAIN invoked : invoked[i].turn # last.turn
             /\ last.exec.out.raised
             /\ last.exec.out.val.type = "JSONDecodeError"
             /\ Last(messages).content = json_dumps(ErrorResult(last.exec.out.val))

C4_Witness ==
    /\ last.kind = "call"
    /\ LastCall.name = Text("list_supported")
    /\ LastCall.arguments = Text("{bad")
    /\ ~ last.exec.called
    /\ \E i \in DOMAIN invoked :
          /\ invoked[i].name = Text("list_supported")
          /\ invoked[i].args = EmptyDict
          /\ messages[2 * invoked[i].turn].function_call.arguments = PyNone

\* C9: the conversation starts with the single user turn and only grows: an
\* iteration that receives a function call appends an assistant turn with
\* the requested name and raw argument string, then a function-result turn
\* with the same name and the serialized result; earlier turns never change,
\* and the i-th request is sent 1 + 2*(i-1) turns.
C9_ConversationGrows ==
    /\ [](pc # "idle" => (Len(messages) >= 1 /\ messages[1] = UserTurn))
    /\ [](\A i \in 1..Len(requests) : requests[i] = 1 + 2 * (i - 1))
    /\ [][ /\ pc = "idle" => messages' = <<UserTurn>>
           /\ pc # "idle"
              => /\ Len(messages') >= Len(messages)
                 /\ SubSeq(messages', 1, Len(messages)) = messages
                 /\ IF /\ turn' = turn + 1
                       /\ last'.kind \in {"final", "call", "tool_error"}
                       /\ last'.msg.function_call # PyNone
                    THEN /\ last'.kind = "call"
                         /\ Len(messages') = Len(messages) + 2
                         /\ messages'[Len(messages) + 1] =
                               [role |-> "assistant", content |-> PyNone,
                                function_call |->
                                   [name      |-> last'.msg.function_call.name,
                                    arguments |-> last'.msg.function_call.arguments]]
                         /\ messages'[Len(messages) + 2] =
                               [role    |-> "function",
                                name    |-> last'.msg.function_call.name,
                                content |-> json_dumps(last'.result)]
                    ELSE messages' = messages ]_vars

C9_Witness ==
    /\ Len(requests) = 3
    /\ requests[3] = 5
    /\ Len(messages) = 7
    /\ messages[6].function_call.arguments = PyNone
    /\ messages[7].role = "function"

\* C10: when every one of the max_turns iterations receives a function call,
\* the tool of the last iteration is executed and its two turns appended,
\* then the loop halts: no FINAL is printed, nothing is raised, and the last
\* tool result is never sent to the provider.
C10_CapHaltsSilently ==
    ( /\ max_turns >= 1
      /\ turn = max_turns
      /\ Cardinality(IntermediateLines) = max_turns )
    => /\ pc = "halted"
       /\ last.kind = "call"
       /\ last.turn = max_turns
       /\ Len(messages) = 1 + 2 * max_turns
       /\ messages[Len(messages) - 1].role = "assistant"
       /\ messages[Len(messages) - 1].function_call.name = LastCall.name
       /\ Last(messages) = [role |-> "function", name |-> LastCall.name,
                            content |-> json_dumps(last.result)]
       /\ FinalLines = {}
       /\ Len(requests) = max_turns
       /\ \A i \in DOMAIN requests : requests[i] < Len(messages)

C10_Witness ==
    /\ max_turns >= 2
    /\ turn = max_turns
    /\ Cardinality(IntermediateLines) = max_turns
    /\ pc = "halted"
    /\ LastCall.name = Text("convert")
    /\ last.exec.entered
    /\ ~ last.exec.out.raised

----------------------------------------------------------------------------
(* Properties of the CurrencyTools methods, checked under SpecTools *)

Called(name) == callee = name /\ outcome # NotCalled

StrOrNone(v) == v.t \in {"str", "None"}

\* the code the word of an argument stands for, <<>> for none
IsoOf(g) == IF g.kind = "built" THEN WordTable[g.word].iso ELSE <<>>

Resolvable(g) == g.kind = "built" /\ IsoOf(g) # <<>>

Unresolvable(g) == g.kind \in {"built", "None"} /\ IsoOf(g) = <<>>

\* the amounts float() accepts, with their value in tenths
Parseable(a) ==
    a.t = "float" \/ a \in {PyStr(<<"1","0","0">>), PyStr(<<" ","0",".","1">>)}

AmountValue(a) ==
    CASE a.t = "float"                  -> a.v
      [] a = PyStr(<<"1","0","0">>)     -> 1000
      [] a = PyStr(<<" ","0",".","1">>) -> 1

Codes == {USD, THB, EUR, JPY}

CodeList == PyList(<<PyStr(USD), PyStr(THB), PyStr(EUR), PyStr(JPY)>>)

Key(b, q) == b \o <<"-", ">">> \o q

\* the rate of each ordered pair that has one, in ten-thousandths
ExpectedRate(b, q) ==
    CASE b = USD /\ q = THB -> 350000
      [] b = THB /\ q = USD -> 286
      [] b = THB /\ q = EUR -> 250
      [] b = EUR /\ q = THB -> 400000
      [] b = USD /\ q = EUR -> 9200
      [] b = EUR /\ q = USD -> 10870

HasNoRate(b, q) == b = JPY \/ q = JPY \/ b = q

Abs(n) == IF n < 0 THEN -n ELSE n

C6_NoRateError ==
    ( /\ Called("convert")
      /\ Parseable(input.amount)
      /\ Resolvable(origin.base) /\ Resolvable(origin.quote)
      /\ HasNoRate(IsoOf(origin.base), IsoOf(origin.quote)) )
    => /\ ~ outcome.raised
       /\ outcome.val.t = "dict"
       /\ DOMAIN outcome.val.d = {"error", "supported_pairs"}
       /\ outcome.val.d.error =
             [fmt |-> "No rate for {pair}",
              pair |-> Key(IsoOf(origin.base), IsoOf(origin.quote))]
       /\ Len(outcome.val.d.supported_pairs.items) = 6
       /\ Range(outcome.val.d.supported_pairs.items) =
             {PyStr(Key(USD, THB)), PyStr(Key(THB, USD)), PyStr(Key(THB, EUR)),
              PyStr(Key(EUR, THB)), PyStr(Key(USD, EUR)), PyStr(Key(EUR, USD))}

C6_Witness ==
    /\ Called("convert")
    /\ input = [amount |-> PyFloat(50), base |-> PyStr(<<"y","e","n">>),
                quote |-> PyStr(USD)]
    /\ outcome.val.d.error = [fmt |-> "No rate for {pair}", pair |-> Key(JPY, USD)]
    /\ lookups = <<Key(JPY, USD)>>

C8_ConvertSuccess ==
    ( /\ Called("convert")
      /\ Parseable(input.amount)
      /\ Resolvable(origin.base) /\ Resolvable(origin.quote)
      /\ ~ HasNoRate(IsoOf(origin.base), IsoOf(origin.quote)) )
    => LET b    == IsoOf(origin.base)
           q    == IsoOf(origin.quote)
           amt  == AmountValue(input.amount)
           rate == ExpectedRate(b, q)
       IN  /\ ~ outcome.raised
           /\ outcome.val.t = "dict"
           /\ DOMAIN outcome.val.d = {"amount", "base", "quote", "rate", "converted"}
           /\ outcome.val.d.amount = PyFloat(amt)
           /\ outcome.val.d.base = PyStr(b)
           /\ outcome.val.d.quote = PyStr(q)
           /\ outcome.val.d.rate = PyFloat(rate)
           /\ outcome.val.d.converted.t = "float"
           /\ 2 * Abs(10 * outcome.val.d.converted.v - amt * rate) <= 10
           /\ lookups = <<Key(b, q)>>
           /\ (amt = 1000 /\ b = USD /\ q = THB)
                 => outcome.val.d.converted = PyFloat(35000000)

C8_Witness ==
    /\ Called("convert")
    /\ input = [amount |-> PyFloat(1), base |-> PyStr(<<"B","a","H","t"," ">>),
                quote |-> PyStr(<<"d","o","l","l","a","r">>)]
    /\ outcome.val.d.rate = PyFloat(286)
    /\ outcome.val.d.converted = PyFloat(29)

====
